---- MODULE Spec2Model ----
(***************************************************************************)
(* A model of expense_manager.py below its Tk widgets: the JSON Storage,   *)
(* the User (Account) with its records, loans, settings and                *)
(* overconsumption categories, backup / restore, the Statistics queries,   *)
(* and the ReminderService with its polling thread.                        *)
(*                                                                         *)
(* Abstractions.  Amounts are integers and sums are exact (the code uses   *)
(* floats, whose sums depend on the order of addition).  A Record carries  *)
(* id, amount, kind, category, timestamp and overconsumption_mark; note is *)
(* never read and is left out.  A timestamp is a string, modelled by its   *)
(* code points.  add_record stamps a record with now_iso().  uuid4 ids are *)
(* fresh numbers drawn from a counter.  User.settings is the very dict     *)
(* object held in Storage._data['settings'] (User.__init__ stores the      *)
(* reference get_settings returns), so one variable stands for both.  A    *)
(* failing Storage.save is the open() failing: the file keeps its old      *)
(* content.  The polling thread is modelled at three grains: one atomic    *)
(* poll per iteration; the while test, the try statement and the wait as   *)
(* steps, where stop() and exceptions matter; and the try statement read   *)
(* by read, where foreground calls run in the middle of a poll (threads    *)
(* of CPython interleave between any two bytecodes, with no lock held by   *)
(* the program).                                                           *)
(***************************************************************************)
EXTENDS Integers, Sequences, FiniteSets, TLC

\* ----------------------------------------------------------------- bounds
MaxRecords == 2
MaxStoreRecords == 1
MaxLoans == 1
MaxIds == 3
MaxPolls == 6
MaxFailures == 1
MaxMonths == 14

\* ------------------------------------------------------------ input sets
Kinds == {"income", "expense"}
Categories == {"food", "rent"}
Amounts == {100, 250}
Balances == {500, 2000, 5000}
ThresholdPairs == {<<3000, 1000>>, <<4000, 500>>}
DueDates == {"none", "2025-01-09", "2025-01-10", "2025-01-11", "not-a-date"}
Today == "2025-01-10"

\* ---------------------------------------------------------------- strings
\* A timestamp is a Python str, compared code point by code point; it is
\* modelled as the sequence of its code points: '-' 45, '0'..'9' 48..57,
\* ':' 58, 'T' 84.

\* str(n) and f"{n}" for n >= 0: decimal digits, no padding
RECURSIVE Digits(_)
Digits(n) == IF n < 10 THEN <<48 + n>> ELSE Digits(n \div 10) \o <<48 + (n % 10)>>

\* f"{n:02d}" for 0 <= n < 100
D2(n) == <<48 + (n \div 10), 48 + (n % 10)>>

\* the four-digit year of date.isoformat()
D4(n) == D2(n \div 100) \o D2(n % 100)

\* a < b on Python strings
RECURSIVE StrLess(_, _)
StrLess(a, b) ==
    IF b = <<>> THEN FALSE
    ELSE IF a = <<>> THEN TRUE
    ELSE IF Head(a) # Head(b) THEN Head(a) < Head(b)
    ELSE StrLess(Tail(a), Tail(b))

\* datetime.isoformat(timespec='seconds')
IsoFormat(y, m, d, hh, mm, ss) ==
    D4(y) \o <<45>> \o D2(m) \o <<45>> \o D2(d) \o <<84>>
    \o D2(hh) \o <<58>> \o D2(mm) \o <<58>> \o D2(ss)

\* now_iso() at the time of the calls
NowIso == IsoFormat(2025, 1, 10, 12, 0, 0)

\* ------------------------------------------------------------ data model
\* a Record as add_record makes it (note is never read and is left out)
Record(id, amount, kind, category, mark) ==
    [id |-> id, amount |-> amount, kind |-> kind, category |-> category,
     timestamp |-> NowIso, overconsumption_mark |-> mark]

LoanRecord(id, due_date, repaid) ==
    [id |-> id, due_date |-> due_date, repaid |-> repaid]

DefaultSettings ==
    [initial_balance |-> 0, threshold_warn |-> 3000, threshold_urgent |-> 1000,
     reminder_enabled |-> FALSE, reminder_time |-> "20:00"]

\* dict.get(key, default)
DictGet(d, key, default) == IF key \in DOMAIN d THEN d[key] ELSE default

\* dict.update(other): key-wise, keys of d that other lacks are kept
DictUpdate(d, other) ==
    [k \in (DOMAIN d) \cup (DOMAIN other) |->
        IF k \in DOMAIN other THEN other[k] ELSE d[k]]

\* d[key] = value
DictSet(d, key, value) ==
    [k \in (DOMAIN d) \cup {key} |-> IF k = key THEN value ELSE d[k]]

\* a removal that stops at the first element with the id
RECURSIVE RemoveId_first_only(_, _)
RemoveId_first_only(s, id) ==
    IF s = <<>> THEN <<>>
    ELSE IF Head(s).id # id THEN <<Head(s)>> \o RemoveId_first_only(Tail(s), id)
         ELSE Tail(s)

\* [x for x in s if x.id != id]
RECURSIVE RemoveId(_, _)
RemoveId(s, id) ==
    IF s = <<>> THEN <<>>
    ELSE IF Head(s).id # id THEN <<Head(s)>> \o RemoveId(Tail(s), id)
         ELSE RemoveId(Tail(s), id)

\* a search that settles on the last element when none has the id
RECURSIVE FirstIndex_or_last(_, _, _)
FirstIndex_or_last(s, id, from) ==
    IF from > Len(s) THEN Len(s)
    ELSE IF s[from].id = id THEN from ELSE FirstIndex_or_last(s, id, from + 1)

\* index of the first element of s with the given id, 0 if none
RECURSIVE FirstIndex(_, _, _)
FirstIndex(s, id, from) ==
    IF from > Len(s) THEN 0
    ELSE IF s[from].id = id THEN from ELSE FirstIndex(s, id, from + 1)

\* ------------------------------------------------------------------ state
VARIABLES
    records,        \* User.records
    loans,          \* User.loans
    settings,       \* User.settings, the same dict as Storage._data['settings']
    overcats,       \* User.overcats
    data,           \* Storage._data: records, loans, overconsumption_categories
    file,           \* the store's file on disk
    backup,         \* the file create_backup wrote
    has_warned_low, \* whether the attribute ReminderService._warned_low exists
    warned_low,     \* ReminderService._warned_low
    warned_urgent,  \* ReminderService._warned_urgent
    pc_init,        \* position of ReminderService.__init__ against its thread
    stop_event,     \* ReminderService._stop_event is set
    pc_loop,        \* position of the thread in ReminderService._run_loop
    pc_stop,        \* position of a caller in ReminderService.stop
    poll,           \* the locals of the poll the thread is in the middle of
    nextId,         \* the next fresh uuid
    notes,          \* the notifications the last step passed to _notify
    writes,         \* the snapshots the last step wrote to the store's file
    last,           \* the last call: its name, arguments and outcome
    snapS,          \* the Account as it was when create_backup last succeeded
    failures,       \* how many calls have had a save fail
    trace           \* the polls made so far: balance and notifications of each

vars == <<records, loans, settings, overcats, data, file, backup, has_warned_low,
          warned_low, warned_urgent, pc_init, stop_event, pc_loop, pc_stop,
          poll, nextId, notes, writes, last, snapS, failures, trace>>

account == <<records, loans, settings, overcats>>
thread == <<stop_event, pc_loop, pc_stop, poll>>
reminder == <<has_warned_low, warned_low, warned_urgent, pc_init, thread>>

\* ---------------------------------------------------------------- Storage
\* Storage.__init__: the default _data
DefaultData ==
    [records |-> <<>>, loans |-> <<>>, settings |-> DefaultSettings,
     overconsumption_categories |-> {}]

\* a file either does not exist, or holds text json.load rejects, or holds a
\* JSON object, its content
NoFile == [exists |-> FALSE, parsable |-> FALSE, content |-> <<>>]
GarbledFile == [exists |-> TRUE, parsable |-> FALSE, content |-> <<>>]
JsonFile(content) == [exists |-> TRUE, parsable |-> TRUE, content |-> content]

\* a load that fills the keys a stored settings object lacks from the defaults
Load_deep_settings(f) ==
    IF f.exists /\ f.parsable
    THEN LET d == DictUpdate(DefaultData, f.content)
         IN  [d EXCEPT !.settings = DictUpdate(DefaultSettings, d.settings)]
    ELSE DefaultData

\* Storage._load: the file's top-level keys replace the defaults'; a missing
\* file is skipped and a json.load failure is caught, both leave the defaults
Load(f) ==
    IF f.exists /\ f.parsable THEN DictUpdate(DefaultData, f.content)
    ELSE DefaultData

\* Storage._data without its settings, which the variable settings holds
DataOf(d) ==
    [records |-> d.records, loans |-> d.loans,
     overconsumption_categories |-> d.overconsumption_categories]

\* what json.dump(self._data) writes
Snapshot(d, s) ==
    [records |-> d.records, loans |-> d.loans, settings |-> s,
     overconsumption_categories |-> d.overconsumption_categories]

\* Storage.save: the file after the call, given the file before it
Save(ok, d, s, f) ==
    IF ok THEN JsonFile(Snapshot(d, s)) ELSE f

\* the snapshots a sequence of save attempts wrote, oldest first
RECURSIVE Written(_, _)
Written(oks, snaps) ==
    IF snaps = <<>> THEN <<>>
    ELSE (IF Head(oks) THEN <<Head(snaps)>> ELSE <<>>)
         \o Written(Tail(oks), Tail(snaps))

\* the file after a sequence of save attempts
LastWritten(oks, snaps, f) ==
    LET w == Written(oks, snaps)
    IN  IF w = <<>> THEN f ELSE JsonFile(w[Len(w)])

Saved(ok) == IF ok THEN "ok" ELSE "failed"

\* the store files a run may start from: no file, a file that is no JSON, a
\* file whose settings object is empty, and a file with an overdue loan and a
\* balance between the two thresholds
StoreFiles ==
    { NoFile,
      GarbledFile,
      JsonFile([settings |-> <<>>]),
      JsonFile([loans |-> <<LoanRecord(90, "2025-01-09", FALSE)>>,
                settings |-> [initial_balance |-> 2000,
                              threshold_warn |-> 3000,
                              threshold_urgent |-> 1000]]) }

\* ------------------------------------------------------------ backup files
TopKeys == {"records", "loans", "settings", "overconsumption_categories"}
RequiredKeys == {"records", "loans", "settings"}

\* A backup file: whether it can be read and parsed, its top-level keys, and
\* under each key its value; recordsOk / loansOk / settingsOk say whether
\* every entry is accepted by Record.from_dict / LoanRecord.from_dict and
\* whether the settings value is a dict.
BackupFile(readable, keys, recs, recordsOk, lns, loansOk, sets, settingsOk, cats) ==
    [readable |-> readable, keys |-> keys, records |-> recs,
     recordsOk |-> recordsOk, loans |-> lns, loansOk |-> loansOk,
     settings |-> sets, settingsOk |-> settingsOk, cats |-> cats]

NoBackup == BackupFile(FALSE, {}, <<>>, TRUE, <<>>, TRUE, <<>>, TRUE, {})

ForeignRecords == <<Record(91, 250, "income", "rent", FALSE)>>
ForeignLoans == <<LoanRecord(92, "2025-01-09", FALSE)>>
ForeignSettings == [initial_balance |-> 5000]

\* a backup file that did not come from create_backup
ForeignBackup(keys, recordsOk, loansOk, settingsOk) ==
    BackupFile(TRUE, keys, ForeignRecords, recordsOk, ForeignLoans, loansOk,
               ForeignSettings, settingsOk, {"rent"})

GoodBackup == ForeignBackup(TopKeys, TRUE, TRUE, TRUE)
BadLoansBackup == ForeignBackup(TopKeys, TRUE, FALSE, TRUE)

ExternalBackups ==
    { NoBackup }
    \cup { ForeignBackup(TopKeys \ {k}, TRUE, TRUE, TRUE) : k \in TopKeys }
    \cup { GoodBackup, BadLoansBackup, ForeignBackup(TopKeys, FALSE, TRUE, TRUE),
           ForeignBackup(TopKeys, TRUE, TRUE, FALSE) }

\* ------------------------------------------------------------------- User
\* User.get_balance over a settings dict and a record sequence
RECURSIVE SumRecords(_, _)
SumRecords(bal, recs) ==
    IF recs = <<>> THEN bal
    ELSE SumRecords(IF Head(recs).kind = "income"
                    THEN bal + Head(recs).amount
                    ELSE bal - Head(recs).amount, Tail(recs))

\* get_balance starting from 0 instead of settings['initial_balance']
get_balance_from_zero(sets, recs) == SumRecords(0, recs)

get_balance(sets, recs) == SumRecords(DictGet(sets, "initial_balance", 0), recs)

\* a call and its outcome; category and mark are those of a record argument,
\* input is the backup file a restore read and stage how far it got, result
\* a value the call computed (delete_record's orig, what a query returned)
Call(op, ret, saved) ==
    [op |-> op, ret |-> ret, saved |-> saved, category |-> "", mark |-> FALSE,
     stage |-> "", input |-> NoBackup, result |-> <<>>]

CallOn(op, ret, rec) ==
    [op |-> op, ret |-> ret, saved |-> "none", category |-> rec.category,
     mark |-> rec.overconsumption_mark, stage |-> "", input |-> NoBackup,
     result |-> <<>>]

\* the locals of a poll of the thread: where it is in check_thresholds and
\* check_loans (pc), the balance and thresholds it has read, the list its for
\* statement iterates (loans itself while live, else list: a list that
\* User.loans no longer names, detached when none of its loans is in
\* User.loans either), the position in it, and the balances the Account has
\* shown since the poll began
IdlePoll ==
    [pc |-> "idle", bal |-> 0, warn |-> 0, urgent |-> 0, list |-> <<>>,
     live |-> FALSE, detached |-> FALSE, idx |-> 0, seen |-> {}]

\* what a call leaves alone that is no poll and does not rebind User.loans
Quiet == /\ notes' = <<>>
         /\ UNCHANGED <<backup, snapS, reminder, trace>>

\* the Account's state as one value, with the balance it shows
AccountOf(recs, lns, sets, cats) ==
    [records |-> recs, loans |-> lns, settings |-> sets, overcats |-> cats,
     balance |-> get_balance(sets, recs)]

Init ==
    \E f \in StoreFiles :
        LET d == Load(f) IN
        /\ records = d.records
        /\ loans = d.loans
        /\ settings = d.settings
        /\ overcats = d.overconsumption_categories
        /\ data = DataOf(d)
        /\ file = f
        /\ backup = NoBackup
        /\ has_warned_low = FALSE
        /\ warned_low = FALSE
        /\ warned_urgent = FALSE
        /\ pc_init = "started"
        /\ stop_event = FALSE
        /\ pc_loop = "test"
        /\ pc_stop = "idle"
        /\ poll = IdlePoll
        /\ nextId = 1
        /\ notes = <<>>
        /\ writes = <<>>
        /\ last = Call("init", "none", "none")
        /\ snapS = AccountOf(records, loans, settings, overcats)
        /\ failures = 0
        /\ trace = <<>>

\* an add_record that passes a failing save on to its caller
add_record_save_raises(amount, kind, category, ok) ==
    LET rec == Record(nextId, amount, kind, category, category \in overcats)
        recs == Append(records, rec)
        d == [data EXCEPT !.records = recs]
    IN  /\ records' = recs
        /\ data' = d
        /\ file' = Save(ok, d, settings, file)
        /\ writes' = Written(<<ok>>, <<Snapshot(d, settings)>>)
        /\ nextId' = nextId + 1
        /\ last' = Call("add_record", IF ok THEN "record" ELSE "raise", Saved(ok))
        /\ Quiet
        /\ UNCHANGED <<loans, settings, overcats>>

\* User.add_record
add_record(amount, kind, category, ok) ==
    LET rec == Record(nextId, amount, kind, category, category \in overcats)
        recs == Append(records, rec)
        d == [data EXCEPT !.records = recs]
    IN  /\ records' = recs
        /\ data' = d
        /\ file' = Save(ok, d, settings, file)
        /\ writes' = Written(<<ok>>, <<Snapshot(d, settings)>>)
        /\ nextId' = nextId + 1
        /\ last' = Call("add_record", "record", Saved(ok))
        /\ Quiet
        /\ UNCHANGED <<loans, settings, overcats>>

\* setattr that also recomputes the mark from the (new) category
SetAttrs_remark(r, kwargs) ==
    [k \in DOMAIN r |->
        IF k = "overconsumption_mark"
        THEN (IF "category" \in DOMAIN kwargs THEN kwargs.category ELSE r.category)
             \in overcats
        ELSE IF k \in DOMAIN kwargs THEN kwargs[k] ELSE r[k]]

\* setattr(r, k, v) for every keyword argument that names an attribute
SetAttrs(r, kwargs) ==
    [k \in DOMAIN r |-> IF k \in DOMAIN kwargs THEN kwargs[k] ELSE r[k]]

\* User.update_record
update_record(record_id, kwargs, ok) ==
    LET i == FirstIndex(records, record_id, 1) IN
    IF i = 0
    THEN /\ last' = Call("update_record", "none", "none")
         /\ writes' = <<>>
         /\ Quiet
         /\ UNCHANGED <<account, data, file, nextId>>
    ELSE LET recs == [records EXCEPT ![i] = SetAttrs(records[i], kwargs)]
             d == [data EXCEPT !.records = recs]
         IN  /\ records' = recs
             /\ data' = d
             /\ file' = Save(ok, d, settings, file)
             /\ writes' = Written(<<ok>>, <<Snapshot(d, settings)>>)
             /\ last' = Call("update_record", "record", Saved(ok))
             /\ Quiet
             /\ UNCHANGED <<loans, settings, overcats, nextId>>

\* User.delete_record
delete_record(record_id, ok) ==
    LET recs == RemoveId(records, record_id)
        changed == Len(recs) # Len(records)
        d == [data EXCEPT !.records = recs]
    IN  /\ records' = recs
        /\ IF changed
           THEN /\ data' = d
                /\ file' = Save(ok, d, settings, file)
                /\ writes' = Written(<<ok>>, <<Snapshot(d, settings)>>)
                /\ last' = [Call("delete_record", "true", Saved(ok))
                            EXCEPT !.result = Len(records)]
           ELSE /\ last' = [Call("delete_record", "false", "none")
                            EXCEPT !.result = Len(records)]
                /\ writes' = <<>>
                /\ UNCHANGED <<data, file>>
        /\ Quiet
        /\ UNCHANGED <<loans, settings, overcats, nextId>>

\* User.add_loan
add_loan(due_date, ok) ==
    LET lns == Append(loans, LoanRecord(nextId, due_date, FALSE))
        d == [data EXCEPT !.loans = lns]
    IN  /\ loans' = lns
        /\ data' = d
        /\ file' = Save(ok, d, settings, file)
        /\ writes' = Written(<<ok>>, <<Snapshot(d, settings)>>)
        /\ nextId' = nextId + 1
        /\ last' = Call("add_loan", "loan", Saved(ok))
        /\ Quiet
        /\ UNCHANGED <<records, settings, overcats>>

\* User.mark_loan_repaid
mark_loan_repaid(loan_id, ok) ==
    LET i == FirstIndex(loans, loan_id, 1) IN
    IF i = 0
    THEN /\ last' = Call("mark_loan_repaid", "false", "none")
         /\ writes' = <<>>
         /\ Quiet
         /\ UNCHANGED <<account, data, file, nextId>>
    ELSE LET lns == [loans EXCEPT ![i].repaid = TRUE]
             d == [data EXCEPT !.loans = lns]
         IN  /\ loans' = lns
             /\ data' = d
             /\ file' = Save(ok, d, settings, file)
             /\ writes' = Written(<<ok>>, <<Snapshot(d, settings)>>)
             /\ last' = Call("mark_loan_repaid", "true", Saved(ok))
             /\ Quiet
             /\ UNCHANGED <<records, settings, overcats, nextId>>

\* whether the thread is inside the for statement of check_loans
Scanning(p) == p.pc \in {"for", "notify"}

\* the loans of a list as they are now: a loan that is still in User.loans is
\* the same object there, a loan that is not has kept its fields
Refresh(lst) ==
    [i \in DOMAIN lst |->
        IF \E j \in DOMAIN loans : loans[j].id = lst[i].id
        THEN loans[CHOOSE j \in DOMAIN loans : loans[j].id = lst[i].id]
        ELSE lst[i]]

\* self.loans = [...]: User.loans names a new list, and a for statement that
\* iterates the old list keeps the old list
Rebound(p) ==
    IF ~Scanning(p) THEN p
    ELSE [p EXCEPT !.live = FALSE,
                   !.list = IF p.live THEN loans
                            ELSE IF p.detached THEN @ ELSE Refresh(@)]

\* User.loans names a new list of new loans
Detached(p) == IF ~Scanning(p) THEN p ELSE [Rebound(p) EXCEPT !.detached = TRUE]

\* the balance the Account shows is noted for a poll that is inside
\* check_thresholds
Seen(p, bal) ==
    IF p.pc \in {"records", "warn", "urgent", "rules"}
    THEN [p EXCEPT !.seen = @ \cup {bal}] ELSE p

\* User.delete_loan
delete_loan(loan_id, ok) ==
    LET lns == RemoveId(loans, loan_id)
        changed == Len(lns) # Len(loans)
        d == [data EXCEPT !.loans = lns]
    IN  /\ loans' = lns
        /\ IF changed
           THEN /\ data' = d
                /\ file' = Save(ok, d, settings, file)
                /\ writes' = Written(<<ok>>, <<Snapshot(d, settings)>>)
                /\ last' = Call("delete_loan", "true", Saved(ok))
           ELSE /\ last' = Call("delete_loan", "false", "none")
                /\ writes' = <<>>
                /\ UNCHANGED <<data, file>>
        /\ poll' = Rebound(poll)
        /\ notes' = <<>>
        /\ UNCHANGED <<records, settings, overcats, nextId, backup, snapS,
                       has_warned_low, warned_low, warned_urgent, pc_init,
                       stop_event, pc_loop, pc_stop, trace>>

\* User.set_thresholds; Storage.update_settings updates the dict with itself
set_thresholds(warn, urgent, ok) ==
    LET s == DictSet(DictSet(settings, "threshold_warn", warn),
                     "threshold_urgent", urgent)
    IN  /\ settings' = s
        /\ file' = Save(ok, data, DictUpdate(s, s), file)
        /\ writes' = Written(<<ok>>, <<Snapshot(data, DictUpdate(s, s))>>)
        /\ last' = Call("set_thresholds", "none", Saved(ok))
        /\ Quiet
        /\ UNCHANGED <<records, loans, overcats, data, nextId>>

\* User.set_initial_balance
set_initial_balance(amount, ok) ==
    LET s == DictSet(settings, "initial_balance", amount)
    IN  /\ settings' = s
        /\ file' = Save(ok, data, DictUpdate(s, s), file)
        /\ writes' = Written(<<ok>>, <<Snapshot(data, DictUpdate(s, s))>>)
        /\ last' = Call("set_initial_balance", "none", Saved(ok))
        /\ Quiet
        /\ UNCHANGED <<records, loans, overcats, data, nextId>>

\* User.add_overconsumption_category
add_overconsumption_category(cat, ok) ==
    LET cats == overcats \cup {cat}
        d == [data EXCEPT !.overconsumption_categories = cats]
    IN  /\ overcats' = cats
        /\ data' = d
        /\ file' = Save(ok, d, settings, file)
        /\ writes' = Written(<<ok>>, <<Snapshot(d, settings)>>)
        /\ last' = Call("add_overconsumption_category", "none", Saved(ok))
        /\ Quiet
        /\ UNCHANGED <<records, loans, settings, nextId>>

\* User.remove_overconsumption_category
remove_overconsumption_category(cat, ok) ==
    IF cat \in overcats
    THEN LET cats == overcats \ {cat}
             d == [data EXCEPT !.overconsumption_categories = cats]
         IN  /\ overcats' = cats
             /\ data' = d
             /\ file' = Save(ok, d, settings, file)
             /\ writes' = Written(<<ok>>, <<Snapshot(d, settings)>>)
             /\ last' = Call("remove_overconsumption_category", "none", Saved(ok))
             /\ Quiet
             /\ UNCHANGED <<records, loans, settings, nextId>>
    ELSE /\ last' = Call("remove_overconsumption_category", "none", "none")
         /\ writes' = <<>>
         /\ Quiet
         /\ UNCHANGED <<account, data, file, nextId>>

\* a backup written without the overconsumption_categories key
BackupOf_without_categories(recs, lns, sets, cats) ==
    BackupFile(TRUE, RequiredKeys, recs, TRUE, lns, TRUE, sets, TRUE, {})

\* the file User.create_backup writes
BackupOf(recs, lns, sets, cats) ==
    BackupFile(TRUE, TopKeys, recs, TRUE, lns, TRUE, sets, TRUE, cats)

\* User.create_backup; ok is whether the backup file can be written
create_backup(ok) ==
    /\ backup' = IF ok THEN BackupOf(records, loans, settings, overcats) ELSE backup
    /\ snapS' = IF ok THEN AccountOf(records, loans, settings, overcats) ELSE snapS
    /\ last' = Call("create_backup", IF ok THEN "path" ELSE "raise", "none")
    /\ notes' = <<>>
    /\ writes' = <<>>
    /\ UNCHANGED <<account, data, file, reminder, nextId, trace>>

\* a restore that looks each key up only when it comes to use it
RestoreStage_lazy_keys(b) ==
    IF ~b.readable THEN "open"
    ELSE IF "records" \notin b.keys THEN "keys"
    ELSE IF ~b.recordsOk THEN "records"
    ELSE IF "loans" \notin b.keys \/ ~b.loansOk THEN "loans"
    ELSE IF "settings" \notin b.keys \/ ~b.settingsOk THEN "settings"
    ELSE "done"

\* how far User.restore_from_backup gets on a backup file b before it raises
RestoreStage(b) ==
    IF ~b.readable THEN "open"
    ELSE IF ~(RequiredKeys \subseteq b.keys) THEN "keys"
    ELSE IF ~b.recordsOk THEN "records"
    ELSE IF ~b.loansOk THEN "loans"
    ELSE IF ~b.settingsOk THEN "settings"
    ELSE "done"

\* User.restore_from_backup; oks are the outcomes of its four saves
restore_from_backup(b, oks) ==
    LET stage == RestoreStage(b)
        recs == IF stage \in {"loans", "settings", "done"} THEN b.records ELSE records
        lns == IF stage \in {"settings", "done"} THEN b.loans ELSE loans
        sets == IF stage = "done" THEN DictUpdate(settings, b.settings) ELSE settings
        cats == IF stage = "done" /\ "overconsumption_categories" \in b.keys
                THEN b.cats ELSE overcats
        d1 == [data EXCEPT !.records = recs]
        d2 == [d1 EXCEPT !.loans = lns]
        s3 == DictUpdate(sets, sets)
        d4 == [d2 EXCEPT !.overconsumption_categories = cats]
        snaps == <<Snapshot(d1, sets), Snapshot(d2, sets), Snapshot(d2, s3),
                   Snapshot(d4, s3)>>
    IN  /\ records' = recs
        /\ loans' = lns
        /\ settings' = sets
        /\ overcats' = cats
        /\ IF stage = "done"
           THEN /\ data' = d4
                /\ file' = LastWritten(oks, snaps, file)
                /\ writes' = Written(oks, snaps)
                /\ last' = [Call("restore_from_backup", "true", Saved(oks[4]))
                            EXCEPT !.stage = stage, !.input = b]
           ELSE /\ last' = [Call("restore_from_backup", "raise", "none")
                            EXCEPT !.stage = stage, !.input = b]
                /\ writes' = <<>>
                /\ UNCHANGED <<data, file>>
        /\ poll' = Seen(IF stage \in {"settings", "done"}
                         THEN Detached(poll) ELSE poll,
                         get_balance(sets, recs))
        /\ notes' = <<>>
        /\ UNCHANGED <<backup, snapS, has_warned_low, warned_low, warned_urgent,
                       pc_init, stop_event, pc_loop, pc_stop, nextId, trace>>

\* -------------------------------------------------------------- Statistics
\* a bound that is "not given": None and '' are both falsy in filter_records
None == <<>>

\* a filter whose end bound is inclusive
filter_records_closed_end(recs, start, end) ==
    LET a == IF start # None
             THEN SelectSeq(recs, LAMBDA r : ~StrLess(r.timestamp, start))
             ELSE recs
    IN  IF end # None
        THEN SelectSeq(a, LAMBDA r : ~StrLess(end, r.timestamp))
        ELSE a

\* Statistics.filter_records
filter_records(recs, start, end) ==
    LET a == IF start # None
             THEN SelectSeq(recs, LAMBDA r : ~StrLess(r.timestamp, start))
             ELSE recs
    IN  IF end # None
        THEN SelectSeq(a, LAMBDA r : StrLess(r.timestamp, end))
        ELSE a

\* the loop of totals and of monthly_series: income, and everything else as
\* expense
RECURSIVE Tally(_, _, _)
Tally(recs, income, expense) ==
    IF recs = <<>> THEN [income |-> income, expense |-> expense]
    ELSE IF Head(recs).kind = "income"
    THEN Tally(Tail(recs), income + Head(recs).amount, expense)
    ELSE Tally(Tail(recs), income, expense + Head(recs).amount)

\* sum(r.amount for r in recs if r.kind == kind)
RECURSIVE SumIf(_, _)
SumIf(recs, kind) ==
    IF recs = <<>> THEN 0
    ELSE (IF Head(recs).kind = kind THEN Head(recs).amount ELSE 0)
         + SumIf(Tail(recs), kind)

\* Statistics.totals
Totals(recs, sets, start, end) ==
    LET t == Tally(filter_records(recs, start, end), 0, 0)
    IN  [income |-> t.income, expense |-> t.expense,
         balance |-> t.income - t.expense + DictGet(sets, "initial_balance", 0)]

\* buckets.setdefault(key, 0.0)
SetDefault(d, key) == IF key \in DOMAIN d THEN d ELSE DictSet(d, key, 0)

\* the loop of Statistics.category_breakdown
RECURSIVE Buckets(_, _)
Buckets(recs, buckets) ==
    IF recs = <<>> THEN buckets
    ELSE LET r == Head(recs)
             b == SetDefault(buckets, r.category)
         IN  IF r.kind = "expense"
             THEN Buckets(Tail(recs), DictSet(b, r.category, b[r.category] + r.amount))
             ELSE LET c == SetDefault(b, "Income")
                  IN  Buckets(Tail(recs), DictSet(c, "Income", c["Income"] + r.amount))

\* Statistics.category_breakdown
CategoryBreakdown(recs, start, end) ==
    Buckets(filter_records(recs, start, end), <<>>)

\* f"{year}-{month:02d}"
MonthLabel(year, month) == Digits(year) \o <<45>> \o D2(month)

\* f"{year}-{month:02d}-01T00:00:00"
MonthStart(year, month) ==
    MonthLabel(year, month) \o <<45, 48, 49, 84, 48, 48, 58, 48, 48, 58, 48, 48>>

\* a month_end whose month is formatted without the 02d
MonthEnd_unpadded(year, month) ==
    IF month = 12 THEN MonthStart(year + 1, 1)
    ELSE Digits(year) \o <<45>> \o Digits(month + 1)
         \o <<45, 48, 49, 84, 48, 48, 58, 48, 48, 58, 48, 48>>

\* month_end in yearly_summary
MonthEnd(year, month) ==
    IF month = 12 THEN MonthStart(year + 1, 1) ELSE MonthStart(year, month + 1)

\* Statistics.yearly_summary
YearlySummary(recs, year) ==
    LET year_records == filter_records(recs, MonthStart(year, 1),
                                       MonthStart(year + 1, 1))
        total_income == SumIf(year_records, "income")
        total_expense == SumIf(year_records, "expense")
    IN  [year |-> year,
         total_income |-> total_income,
         total_expense |-> total_expense,
         net_balance |-> total_income - total_expense,
         monthly_trend |->
            [month \in 1..12 |->
               LET month_records == filter_records(recs, MonthStart(year, month),
                                                   MonthEnd(year, month))
                   month_income == SumIf(month_records, "income")
                   month_expense == SumIf(month_records, "expense")
               IN  [month |-> MonthLabel(year, month),
                    income |-> month_income,
                    expense |-> month_expense,
                    balance |-> month_income - month_expense]],
         category_breakdown |->
            CategoryBreakdown(recs, MonthStart(year, 1), MonthStart(year + 1, 1))]

\* a month offset that steps back over one year boundary at most
MonthBack_one_wrap(y, m) == IF m <= 0 THEN <<y - 1, m + 12>> ELSE <<y, m>>

\* monthly_series: while m <= 0: y -= 1; m += 12
RECURSIVE MonthBack(_, _)
MonthBack(y, m) == IF m <= 0 THEN MonthBack(y - 1, m + 12) ELSE <<y, m>>

\* datetime.combine(date(y, m, 1), time.min).isoformat()
MonthStartIso(y, m) == IsoFormat(y, m, 1, 0, 0, 0)

\* Statistics.monthly_series, today being in month today[2] of year today[1]
MonthlySeries(recs, today, months) ==
    [j \in 1..months |->
        LET i == months - j
            ym == MonthBack(today[1], today[2] - i)
            y == ym[1]
            m == ym[2]
            start_iso == MonthStartIso(y, m)
            end_iso == IF m = 12 THEN MonthStartIso(y + 1, 1)
                       ELSE MonthStartIso(y, m + 1)
            t == Tally(filter_records(recs, start_iso, end_iso), 0, 0)
        IN  <<D4(y) \o <<45>> \o D2(m), t.income, t.expense>>]

\* a call that only reads: its arguments and what it returned
Query(op, args, value) ==
    /\ last' = [Call(op, "value", "none")
                EXCEPT !.result = [args |-> args, value |-> value]]
    /\ writes' = <<>>
    /\ Quiet
    /\ UNCHANGED <<account, data, file, nextId>>

totals(start, end) ==
    Query("totals", <<start, end>>, Totals(records, settings, start, end))

yearly_summary(year) ==
    Query("yearly_summary", <<year>>, YearlySummary(records, year))

monthly_series(today, months) ==
    Query("monthly_series", <<today, months>>,
          MonthlySeries(records, today, months))

\* -------------------------------------------------------- ReminderService
Note(kind, id) == [kind |-> kind, id |-> id]

\* ReminderService.__init__, line 406: the assignment made after the thread
\* has been started
ctor_finish ==
    /\ pc_init = "started"
    /\ pc_init' = "done"
    /\ has_warned_low' = TRUE
    /\ warned_low' = FALSE
    /\ last' = Call("__init__", "none", "none")
    /\ notes' = <<>>
    /\ writes' = <<>>
    /\ UNCHANGED <<account, data, file, backup, snapS, warned_urgent, thread,
                   nextId, trace>>

\* check_thresholds without line 434: an urgent poll leaves _warned_low alone
Thresholds_urgent_keeps_low(bal, warn, urgent, hasLow, low, urg) ==
    IF bal <= urgent
    THEN [raised |-> FALSE,
          notes |-> IF ~urg THEN <<Note("urgent", 0)>> ELSE <<>>,
          hasLow |-> hasLow, low |-> low, urg |-> TRUE]
    ELSE IF bal <= warn
    THEN [raised |-> FALSE,
          notes |-> IF ~low THEN <<Note("warn", 0)>> ELSE <<>>,
          hasLow |-> TRUE, low |-> TRUE, urg |-> FALSE]
    ELSE [raised |-> FALSE, notes |-> <<>>, hasLow |-> TRUE, low |-> FALSE,
          urg |-> FALSE]

\* ReminderService.check_thresholds as a function of the balance, the two
\* thresholds and the flags: the notifications, the flags afterwards, and
\* whether reading a missing _warned_low raised AttributeError
Thresholds(bal, warn, urgent, hasLow, low, urg) ==
    IF bal <= urgent
    THEN [raised |-> FALSE,
          notes |-> IF ~urg THEN <<Note("urgent", 0)>> ELSE <<>>,
          hasLow |-> TRUE, low |-> TRUE, urg |-> TRUE]
    ELSE IF bal <= warn
    THEN IF ~hasLow
         THEN [raised |-> TRUE, notes |-> <<>>, hasLow |-> hasLow, low |-> low,
               urg |-> urg]
         ELSE [raised |-> FALSE,
               notes |-> IF ~low THEN <<Note("warn", 0)>> ELSE <<>>,
               hasLow |-> TRUE, low |-> TRUE, urg |-> FALSE]
    ELSE [raised |-> FALSE, notes |-> <<>>, hasLow |-> TRUE, low |-> FALSE,
          urg |-> FALSE]

\* check_thresholds on the current state
ThresholdsNow ==
    Thresholds(get_balance(settings, records),
               DictGet(settings, "threshold_warn", 3000),
               DictGet(settings, "threshold_urgent", 1000),
               has_warned_low, warned_low, warned_urgent)

\* datetime.fromisoformat(s).date() as a day number, -1 when it raises
FromIso(s) ==
    CASE s = "2025-01-09" -> 9
      [] s = "2025-01-10" -> 10
      [] s = "2025-01-11" -> 11
      [] OTHER -> -1

\* ReminderService.check_loans: the notifications for a loan sequence
RECURSIVE LoanNotes(_)
LoanNotes(lns) ==
    IF lns = <<>> THEN <<>>
    ELSE LET l == Head(lns)
             dd == FromIso(l.due_date)
         IN  (IF l.due_date # "none" /\ ~l.repaid /\ dd # -1 /\ dd <= FromIso(Today)
              THEN <<Note("loan", l.id)>> ELSE <<>>)
             \o LoanNotes(Tail(lns))

\* ReminderService.check_thresholds, called directly
check_thresholds ==
    LET t == ThresholdsNow IN
    /\ has_warned_low' = t.hasLow
    /\ warned_low' = t.low
    /\ warned_urgent' = t.urg
    /\ notes' = t.notes
    /\ last' = Call("check_thresholds", IF t.raised THEN "raise" ELSE "none", "none")
    /\ writes' = <<>>
    /\ UNCHANGED <<account, data, file, backup, snapS, pc_init, thread, nextId>>

\* ReminderService.check_loans, called directly
check_loans ==
    /\ notes' = LoanNotes(loans)
    /\ last' = Call("check_loans", "none", "none")
    /\ writes' = <<>>
    /\ UNCHANGED <<account, data, file, backup, snapS, reminder, nextId, trace>>

\* one iteration of ReminderService._run_loop: check_thresholds, then
\* check_loans unless check_thresholds raised, the exception being caught
run_loop_iteration ==
    LET t == ThresholdsNow IN
    /\ has_warned_low' = t.hasLow
    /\ warned_low' = t.low
    /\ warned_urgent' = t.urg
    /\ notes' = IF t.raised THEN t.notes ELSE t.notes \o LoanNotes(loans)
    /\ last' = Call("_run_loop", IF t.raised THEN "caught" ELSE "none", "none")
    /\ writes' = <<>>
    /\ UNCHANGED <<account, data, file, backup, snapS, pc_init, thread, nextId,
                   trace>>

\* a while loop that does not look at the stop event
WhileTest_ignores_stop(stopped) == "try"

\* _run_loop, line 410: while not self._stop_event.is_set()
WhileTest(stopped) == IF stopped THEN "exited" ELSE "try"

\* a try statement without its except clause: the exception ends the thread
AfterTry_uncaught(raised) == IF raised THEN "dead" ELSE "wait"

\* _run_loop, lines 411-415: where the thread is after the try statement,
\* whether or not a check raised
AfterTry(raised) == "wait"

\* the thread evaluates the while condition
loop_test ==
    /\ pc_loop = "test"
    /\ pc_loop' = WhileTest(stop_event)
    /\ notes' = <<>>
    /\ writes' = <<>>
    /\ UNCHANGED <<account, data, file, backup, snapS, has_warned_low, warned_low,
                   warned_urgent, pc_init, stop_event, pc_stop, poll, nextId,
                   last, trace>>

\* the thread runs the try statement: check_thresholds and check_loans, the
\* callback raising or not inside _notify, which catches what it raises
loop_try(callback_raises) ==
    LET t == ThresholdsNow
        ns == IF t.raised THEN t.notes ELSE t.notes \o LoanNotes(loans)
    IN  /\ pc_loop = "try"
        /\ pc_loop' = AfterTry(t.raised)
        /\ has_warned_low' = t.hasLow
        /\ warned_low' = t.low
        /\ warned_urgent' = t.urg
        /\ notes' = ns
        /\ last' = [Call("_run_loop", IF t.raised THEN "caught" ELSE "none", "none")
                    EXCEPT !.stage = IF callback_raises /\ ns # <<>>
                                     THEN "callback raised" ELSE ""]
        /\ writes' = <<>>
        /\ UNCHANGED <<account, data, file, backup, snapS, pc_init, stop_event,
                       pc_stop, poll, nextId, trace>>

\* The try statement of _run_loop statement by statement, for the calls that
\* run while it runs.  The steps are those between which another thread's
\* call changes what the poll goes on to read.  The sum over self.records is
\* one step: it is used where no call appends to that list or changes a
\* record of it meanwhile.

\* what a step of the poll leaves alone
PollStep ==
    /\ pc_loop = "try"
    /\ writes' = <<>>
    /\ UNCHANGED <<account, data, file, backup, snapS, pc_init, stop_event,
                   pc_stop, nextId, trace>>

\* a step of the poll that calls no _notify and ends no try statement
PollLocal ==
    /\ PollStep
    /\ notes' = <<>>
    /\ UNCHANGED <<has_warned_low, warned_low, warned_urgent, pc_loop, last>>

\* get_balance, line 236: bal = float(self.settings.get('initial_balance'))
poll_initial_balance ==
    /\ poll.pc = "idle"
    /\ poll' = [IdlePoll EXCEPT !.pc = "records",
                                !.bal = DictGet(settings, "initial_balance", 0),
                                !.seen = {get_balance(settings, records)}]
    /\ PollLocal

\* get_balance, lines 237-242: the records are added to the balance read
poll_records ==
    /\ poll.pc = "records"
    /\ poll' = [Seen(poll, get_balance(settings, records))
                EXCEPT !.pc = "warn",
                       !.bal = get_balance([initial_balance |-> poll.bal], records)]
    /\ PollLocal

\* check_thresholds, line 426
poll_warn ==
    /\ poll.pc = "warn"
    /\ poll' = [Seen(poll, get_balance(settings, records))
                EXCEPT !.pc = "urgent",
                       !.warn = DictGet(settings, "threshold_warn", 3000)]
    /\ PollLocal

\* check_thresholds, line 427
poll_urgent ==
    /\ poll.pc = "urgent"
    /\ poll' = [Seen(poll, get_balance(settings, records))
                EXCEPT !.pc = "rules",
                       !.urgent = DictGet(settings, "threshold_urgent", 1000)]
    /\ PollLocal

\* check_thresholds, lines 430-447, on the balance and thresholds read; an
\* AttributeError ends the try statement
poll_rules ==
    LET t == Thresholds(poll.bal, poll.warn, poll.urgent,
                        has_warned_low, warned_low, warned_urgent)
    IN  /\ poll.pc = "rules"
        /\ has_warned_low' = t.hasLow
        /\ warned_low' = t.low
        /\ warned_urgent' = t.urg
        /\ notes' = t.notes
        /\ IF t.raised
           THEN /\ poll' = IdlePoll
                /\ pc_loop' = AfterTry(TRUE)
                /\ last' = Call("_run_loop", "caught", "none")
           ELSE /\ poll' = [IdlePoll EXCEPT !.pc = "loans"]
                /\ UNCHANGED <<pc_loop, last>>
        /\ PollStep

\* check_loans, line 456: the for statement evaluates self.user.loans
poll_loans ==
    /\ poll.pc = "loans"
    /\ poll' = [poll EXCEPT !.pc = "for", !.live = TRUE, !.idx = 1]
    /\ PollLocal

\* the list the for statement iterates, as it is now
ForList(p) ==
    IF p.live THEN loans ELSE IF p.detached THEN p.list ELSE Refresh(p.list)

\* check_loans, lines 456-460: the for statement takes the next loan, if
\* there is one, and tests it; without one the try statement ends
poll_for ==
    LET lst == ForList(poll) IN
    /\ poll.pc = "for"
    /\ notes' = <<>>
    /\ IF poll.idx > Len(lst)
       THEN /\ poll' = IdlePoll
            /\ pc_loop' = AfterTry(FALSE)
            /\ last' = Call("_run_loop", "none", "none")
       ELSE /\ poll' = IF LoanNotes(<<lst[poll.idx]>>) # <<>>
                       THEN [poll EXCEPT !.pc = "notify"]
                       ELSE [poll EXCEPT !.idx = @ + 1]
            /\ UNCHANGED <<pc_loop, last>>
    /\ UNCHANGED <<has_warned_low, warned_low, warned_urgent>>
    /\ PollStep

\* check_loans, line 461: _notify for the loan that passed the test
poll_notify ==
    /\ poll.pc = "notify"
    /\ notes' = <<Note("loan", ForList(poll)[poll.idx].id)>>
    /\ poll' = [poll EXCEPT !.pc = "for", !.idx = @ + 1]
    /\ UNCHANGED <<has_warned_low, warned_low, warned_urgent, pc_loop, last>>
    /\ PollStep

\* _run_loop, line 416: self._stop_event.wait(interval) returns, the event
\* set or the interval over
loop_wait ==
    /\ pc_loop = "wait"
    /\ pc_loop' = "test"
    /\ notes' = <<>>
    /\ writes' = <<>>
    /\ UNCHANGED <<account, data, file, backup, snapS, has_warned_low, warned_low,
                   warned_urgent, pc_init, stop_event, pc_stop, poll, nextId,
                   last, trace>>

\* the thread has not ended
IsAlive == pc_loop \notin {"exited", "dead"}

\* ReminderService.stop up to the join: sets the event and, the thread being
\* alive, starts to wait for it
stop_set ==
    /\ pc_stop = "idle"
    /\ stop_event' = TRUE
    /\ pc_stop' = IF IsAlive THEN "join" ELSE "idle"
    /\ last' = [Call("stop", IF IsAlive THEN "joining" ELSE "none", "none")
                EXCEPT !.stage = IF IsAlive THEN "" ELSE "not alive"]
    /\ notes' = <<>>
    /\ writes' = <<>>
    /\ UNCHANGED <<account, data, file, backup, snapS, has_warned_low, warned_low,
                   warned_urgent, pc_init, pc_loop, poll, nextId, trace>>

\* ReminderService.stop, line 422: join(timeout=1.0) returns, the thread
\* ended or the second over
stop_join ==
    /\ pc_stop = "join"
    /\ pc_stop' = "idle"
    /\ last' = [Call("stop", "none", "none")
                EXCEPT !.stage = IF IsAlive THEN "timeout" ELSE "joined"]
    /\ notes' = <<>>
    /\ writes' = <<>>
    /\ UNCHANGED <<account, data, file, backup, snapS, has_warned_low, warned_low,
                   warned_urgent, pc_init, stop_event, pc_loop, poll, nextId,
                   trace>>

\* check_overconsumption reading the record's stored mark instead of the set
check_overconsumption_by_mark(record) ==
    /\ notes' = IF record.overconsumption_mark
                THEN <<Note("over", record.id)>> ELSE <<>>
    /\ last' = CallOn("check_overconsumption", "none", record)
    /\ writes' = <<>>
    /\ UNCHANGED <<account, data, file, backup, snapS, reminder, nextId, trace>>

\* ReminderService.check_overconsumption
check_overconsumption(record) ==
    /\ notes' = IF record.category \in overcats
                THEN <<Note("over", record.id)>> ELSE <<>>
    /\ last' = CallOn("check_overconsumption", "none", record)
    /\ writes' = <<>>
    /\ UNCHANGED <<account, data, file, backup, snapS, reminder, nextId, trace>>

\* ------------------------------------------------------------ environment
\* keyword arguments given to update_record
Kwargs ==
    { [amount |-> 250], [kind |-> "income"], [category |-> "rent"],
      [amount |-> 100, kind |-> "expense", category |-> "food"],
      [overconsumption_mark |-> TRUE], [id |-> 1], [colour |-> "red"] }

\* the ids of the elements of a sequence
Ids(s) == { s[i].id : i \in DOMAIN s }

\* ids a caller may pass: those of the live entities and one that none has
CallerIds(s) == { s[i].id : i \in DOMAIN s } \cup {99}

\* records a caller may pass to check_overconsumption besides the live ones
DetachedRecords ==
    { Record(99, 100, "expense", c, m) : c \in Categories, m \in BOOLEAN }

Range(s) == { s[i] : i \in DOMAIN s }

\* a foreground call: made once ReminderService.__init__ has returned
Foreground == pc_init = "done"

\* the store's file can be written (ok) or not; at most MaxFailures calls
\* find it unwritable
Writable(ok) ==
    /\ ok \/ failures < MaxFailures
    /\ failures' = IF ok THEN failures ELSE failures + 1

\* the four saves of restore_from_backup: the store stops being writable
\* before the first, between two of them, or not at all
SaveOutcomes == { [i \in 1..4 |-> i <= n] : n \in 0..4 }
AllSaved == [i \in 1..4 |-> TRUE]

\* the calls on records, at most cap of them live, with arguments from the
\* given sets
RecordCalls(cap, amounts, kinds, cats, kwargs, oks) ==
    \/ \E a \in amounts, k \in kinds, c \in cats, ok \in oks :
          Foreground /\ Len(records) < cap /\ nextId <= MaxIds
          /\ Writable(ok) /\ add_record(a, k, c, ok)
    \/ \E id \in CallerIds(records), kw \in kwargs, ok \in oks :
          Foreground /\ Writable(ok) /\ update_record(id, kw, ok)
    \/ \E id \in CallerIds(records), ok \in oks :
          Foreground /\ Writable(ok) /\ delete_record(id, ok)

\* the calls on loans
LoanCalls(dues, oks) ==
    \/ \E due \in dues, ok \in oks :
          Foreground /\ Len(loans) < MaxLoans /\ nextId <= MaxIds
          /\ Writable(ok) /\ add_loan(due, ok)
    \/ \E id \in CallerIds(loans), ok \in oks :
          Foreground /\ Writable(ok) /\ mark_loan_repaid(id, ok)
    \/ \E id \in CallerIds(loans), ok \in oks :
          Foreground /\ Writable(ok) /\ delete_loan(id, ok)

\* the calls on the overconsumption categories
CategoryCalls(cats, oks) ==
    \/ \E c \in cats, ok \in oks :
          Foreground /\ Writable(ok) /\ add_overconsumption_category(c, ok)
    \/ \E c \in cats, ok \in oks :
          Foreground /\ Writable(ok) /\ remove_overconsumption_category(c, ok)

\* the calls on the settings
SettingCalls(balances, thresholds, oks) ==
    \/ \E b \in balances, ok \in oks :
          Foreground /\ Writable(ok) /\ set_initial_balance(b, ok)
    \/ \E t \in thresholds, ok \in oks :
          Foreground /\ Writable(ok) /\ set_thresholds(t[1], t[2], ok)

\* restore_from_backup on one of the given files
RestoreCalls(files, outcomes) ==
    \E b \in files, oks \in outcomes :
        Foreground /\ Writable(oks[4]) /\ restore_from_backup(b, oks)

\* ReminderService.__init__ returning
Construct == ctor_finish /\ UNCHANGED failures

\* Records and the balance, the store being writable
Next ==
    \/ Construct
    \/ RecordCalls(MaxRecords, Amounts, Kinds, {"food"},
                   {[amount |-> 250], [kind |-> "income"], [id |-> 1]}, {TRUE})
    \/ SettingCalls({500, 2000}, {<<3000, 1000>>}, {TRUE})
    \/ RestoreCalls({NoBackup, GoodBackup, BadLoansBackup}, {AllSaved})

Spec == Init /\ [][Next]_vars

\* Records, their marks and the overconsumption categories
NextMarks ==
    \/ Construct
    \/ RecordCalls(MaxRecords, {100}, {"expense"}, Categories,
                   { kw \in Kwargs : DOMAIN kw \cap {"kind", "id"} = {} }, {TRUE})
    \/ CategoryCalls(Categories, {TRUE})
    \/ \E r \in Range(records) \cup DetachedRecords :
          Foreground /\ check_overconsumption(r) /\ UNCHANGED failures

SpecMarks == Init /\ [][NextMarks]_vars

\* Every mutating call and restore, each save succeeding or failing
NextStore ==
    \/ Construct
    \/ RecordCalls(MaxStoreRecords, {100}, {"expense"}, {"food"},
                   {[amount |-> 250]}, BOOLEAN)
    \/ SettingCalls({2000}, {<<4000, 500>>}, BOOLEAN)
    \/ RestoreCalls(ExternalBackups, SaveOutcomes)

SpecStore == Init /\ [][NextStore]_vars

\* create_backup, later calls, and restore_from_backup on the file it wrote
NextBackup ==
    \/ Construct
    \/ \E ok \in BOOLEAN :
          Foreground /\ create_backup(ok) /\ UNCHANGED failures
    \/ RestoreCalls({backup}, {AllSaved})
    \/ /\ Foreground /\ Len(records) < MaxStoreRecords /\ nextId <= MaxIds
       /\ Writable(TRUE) /\ add_record(100, "expense", "food", TRUE)
    \/ \E id \in CallerIds(records) :
          Foreground /\ Writable(TRUE) /\ delete_record(id, TRUE)
    \/ /\ Foreground /\ Len(loans) < MaxLoans /\ nextId <= MaxIds
       /\ Writable(TRUE) /\ add_loan("none", TRUE)
    \/ \E id \in CallerIds(loans) :
          Foreground /\ Writable(TRUE) /\ delete_loan(id, TRUE)
    \/ Foreground /\ Writable(TRUE) /\ set_initial_balance(2000, TRUE)
    \/ CategoryCalls({"food"}, {TRUE})

SpecBackup == Init /\ [][NextBackup]_vars

\* the kinds of a sequence of notifications
Kind(ns) == [i \in DOMAIN ns |-> ns[i].kind]

\* a direct check_thresholds call, entered in the trace of polls
TracedPoll ==
    /\ Foreground
    /\ Len(trace) < MaxPolls
    /\ check_thresholds
    /\ trace' = Append(trace,
                       [bal |-> get_balance(settings, records),
                        warn |-> DictGet(settings, "threshold_warn", 3000),
                        urgent |-> DictGet(settings, "threshold_urgent", 1000),
                        notes |-> Kind(notes')])
    /\ UNCHANGED failures

\* Sequential check_thresholds polls after construction, the balance moving
\* between them and the thresholds chosen before the first
NextPolls ==
    \/ Construct
    \/ \E b \in Balances :
          Foreground /\ Writable(TRUE) /\ set_initial_balance(b, TRUE)
    \/ \E t \in ThresholdPairs :
          Foreground /\ trace = <<>> /\ Writable(TRUE)
          /\ set_thresholds(t[1], t[2], TRUE)
    \/ TracedPoll

SpecPolls == Init /\ [][NextPolls]_vars

\* The background loop from the moment its thread is started, and the calls
\* on loans
NextLoop ==
    \/ Construct
    \/ run_loop_iteration /\ UNCHANGED failures
    \/ LoanCalls(DueDates, {TRUE})
    \/ \E b \in Balances :
          Foreground /\ Writable(TRUE) /\ set_initial_balance(b, TRUE)

SpecLoop == Init /\ [][NextLoop]_vars

\* The program started again on the store's file as it is now: Storage.__init__
\* with _load, User.__init__, ReminderService.__init__ up to the thread start
Reopen ==
    LET d == Load(file) IN
    /\ records' = d.records
    /\ loans' = d.loans
    /\ settings' = d.settings
    /\ overcats' = d.overconsumption_categories
    /\ data' = DataOf(d)
    /\ has_warned_low' = FALSE
    /\ warned_low' = FALSE
    /\ warned_urgent' = FALSE
    /\ pc_init' = "started"
    /\ stop_event' = FALSE
    /\ pc_loop' = "test"
    /\ pc_stop' = "idle"
    /\ poll' = IdlePoll
    /\ notes' = <<>>
    /\ writes' = <<>>
    /\ last' = Call("init", "none", "none")
    /\ trace' = <<>>
    /\ UNCHANGED <<file, backup, snapS, nextId, failures>>

\* Runs of the program over one store file, some saves failing
NextLoad ==
    \/ Construct
    \/ Foreground /\ Reopen
    \/ RecordCalls(MaxStoreRecords, {100}, {"expense"}, {"food"},
                   {[amount |-> 250]}, BOOLEAN)
    \/ SettingCalls({2000}, {<<4000, 500>>}, BOOLEAN)
    \/ CategoryCalls({"food"}, BOOLEAN)

SpecLoad == Init /\ [][NextLoad]_vars

\* the timestamps records are given: the last second of 2023, the first
\* second of 2025, the last second of 2025, and a date typed without a time,
\* "2025-02-01"
Stamps ==
    { IsoFormat(2023, 12, 31, 23, 59, 59),
      IsoFormat(2025, 1, 1, 0, 0, 0),
      IsoFormat(2025, 12, 31, 23, 59, 59),
      D4(2025) \o <<45>> \o D2(2) \o <<45>> \o D2(1) }

\* the bounds totals is given
Bounds == { None, IsoFormat(2025, 1, 1, 0, 0, 0), NowIso }

\* the years yearly_summary is asked for
Years == { 2024, 2025 }

\* the months monthly_series is called in, as <<year, month>>
Months == { <<2025, 1>>, <<2025, 12>> }

\* the last call was no Statistics query
Settled == last.op \notin {"totals", "yearly_summary", "monthly_series"}

\* Records with their timestamps, and the Statistics queries; a query reads
\* the Account only, so each is made in the states the other calls leave
NextStats ==
    \/ Construct
    \/ \E k \in Kinds :
          Foreground /\ Len(records) < MaxRecords /\ nextId <= MaxIds
          /\ Writable(TRUE) /\ add_record(100, k, "food", TRUE)
    \/ \E id \in Ids(records), t \in Stamps :
          Foreground /\ Writable(TRUE)
          /\ update_record(id, [timestamp |-> t], TRUE)
    \/ \E start \in Bounds, end \in Bounds :
          Foreground /\ Settled /\ totals(start, end) /\ UNCHANGED failures
    \/ \E year \in Years :
          Foreground /\ Settled /\ yearly_summary(year) /\ UNCHANGED failures
    \/ \E today \in Months, months \in 1..MaxMonths :
          Foreground /\ Settled /\ monthly_series(today, months)
          /\ UNCHANGED failures

SpecStats == Init /\ [][NextStats]_vars

\* The thread of the ReminderService step by step, stop(), and the balance
\* moving under it
NextThread ==
    \/ Construct
    \/ loop_test /\ UNCHANGED failures
    \/ \E cb \in BOOLEAN : loop_try(cb) /\ UNCHANGED failures
    \/ loop_wait /\ UNCHANGED failures
    \/ Foreground /\ stop_set /\ UNCHANGED failures
    \/ stop_join /\ UNCHANGED failures
    \/ \E b \in Balances :
          Foreground /\ pc_stop = "idle" /\ Writable(TRUE)
          /\ set_initial_balance(b, TRUE)

\* the thread is scheduled again and again, a check returns, a wait and a
\* join with a timeout end
FairThread ==
    /\ WF_vars(loop_test /\ UNCHANGED failures)
    /\ WF_vars(\E cb \in BOOLEAN : loop_try(cb) /\ UNCHANGED failures)
    /\ WF_vars(loop_wait /\ UNCHANGED failures)
    /\ WF_vars(stop_join /\ UNCHANGED failures)

SpecThread == Init /\ [][NextThread]_vars /\ FairThread

\* The calls that take an id, on records and on loans, each save succeeding
\* or failing
NextEntities ==
    \/ Construct
    \/ RecordCalls(MaxStoreRecords, {100}, {"expense"}, {"food"},
                   {[amount |-> 250]}, BOOLEAN)
    \/ LoanCalls({"none", "2025-01-09"}, BOOLEAN)

SpecEntities == Init /\ [][NextEntities]_vars

\* the steps of the thread, its try statement taken statement by statement
ThreadSteps ==
    \/ loop_test /\ UNCHANGED failures
    \/ poll_initial_balance /\ UNCHANGED failures
    \/ poll_records /\ UNCHANGED failures
    \/ poll_warn /\ UNCHANGED failures
    \/ poll_urgent /\ UNCHANGED failures
    \/ poll_rules /\ UNCHANGED failures
    \/ poll_loans /\ UNCHANGED failures
    \/ poll_for /\ UNCHANGED failures
    \/ poll_notify /\ UNCHANGED failures
    \/ loop_wait /\ UNCHANGED failures

\* The thread running while the calls on loans are made
NextLoanRace ==
    \/ Construct
    \/ ThreadSteps
    \/ LoanCalls({"none", "2025-01-09", "2025-01-11"}, {TRUE})

SpecLoanRace == Init /\ [][NextLoanRace]_vars

\* a call made while the thread is between two polls
BetweenPolls == Foreground /\ poll.pc = "idle"

\* The thread running while the backup is restored, at any moment of a poll;
\* the one backup is made, and the Account is made to differ from it, between
\* polls
NextRestoreRace ==
    \/ Construct
    \/ ThreadSteps
    \/ /\ BetweenPolls /\ backup = NoBackup
       /\ create_backup(TRUE) /\ UNCHANGED failures
    \/ RestoreCalls({backup}, {AllSaved})
    \/ /\ BetweenPolls /\ Len(records) < MaxStoreRecords /\ nextId <= MaxIds
       /\ Writable(TRUE) /\ add_record(100, "income", "food", TRUE)
    \/ \E b \in {500, 2000} :
          BetweenPolls /\ Writable(TRUE) /\ set_initial_balance(b, TRUE)
    \/ BetweenPolls /\ Writable(TRUE) /\ set_thresholds(4000, 500, TRUE)

SpecRestoreRace == Init /\ [][NextRestoreRace]_vars

\* keyword arguments that name the id: the id of a live record, which is what
\* a caller can know
IdKwargs == { [id |-> i] : i \in Ids(records) }

\* The calls on records, update_record given any attribute, id included
NextIds ==
    \/ Construct
    \/ RecordCalls(MaxRecords, Amounts, Kinds, Categories,
                   IdKwargs \cup {[amount |-> 250], [colour |-> "red"]}, {TRUE})

SpecIds == Init /\ [][NextIds]_vars

\* ----------------------------------------------------------------- claims
\* the sum of the amounts of the records of one kind
RECURSIVE SumOfKind(_, _)
SumOfKind(recs, kind) ==
    IF recs = <<>> THEN 0
    ELSE (IF Head(recs).kind = kind THEN Head(recs).amount ELSE 0)
         + SumOfKind(Tail(recs), kind)

\* C1: after any sequence of add_record, update_record, delete_record,
\* set_initial_balance and restore_from_backup calls, get_balance() is
\* initial_balance plus the income amounts minus the expense amounts of the
\* current record sequence.
C1_BalanceIsRecomputed ==
    get_balance(settings, records)
        = DictGet(settings, "initial_balance", 0)
          + SumOfKind(records, "income") - SumOfKind(records, "expense")

\* a state where the balance sums an income and an expense over a set
\* initial balance: 500 + 250 - 100
C1_Witness ==
    /\ last.op \in {"add_record", "update_record", "delete_record",
                    "set_initial_balance", "restore_from_backup"}
    /\ Len(records) = 2
    /\ records[1].kind = "income" /\ records[1].amount = 250
    /\ records[2].kind = "expense" /\ records[2].amount = 100
    /\ DictGet(settings, "initial_balance", 0) = 500
    /\ get_balance(settings, records) = 650

OverNotes == { i \in DOMAIN notes : notes[i].kind = "over" }

\* C8: an 'over' notification is emitted exactly by a check_overconsumption
\* call whose record's category is in the overconsumption set at the time of
\* the call, whatever the record's stored mark; no other call, add_record
\* included, emits one.
C8_OverIffCategoryInSet ==
    /\ last.op = "check_overconsumption"
         => Cardinality(OverNotes) = (IF last.category \in overcats THEN 1 ELSE 0)
    /\ last.op # "check_overconsumption" => OverNotes = {}

\* a check has fired for a record whose stored mark is false
C8_Witness ==
    /\ last.op = "check_overconsumption"
    /\ ~last.mark
    /\ last.category \in overcats
    /\ OverNotes # {}

\* the marks of a record sequence, in order
Marks(recs) == [i \in DOMAIN recs |-> recs[i].overconsumption_mark]

\* C9: add_record sets the new record's overconsumption_mark to (category in
\* the overconsumption set), and the marks are not changed afterwards by
\* add_overconsumption_category, remove_overconsumption_category or an
\* update_record whose arguments do not name the mark.
C9_MarkFrozen ==
    [][ /\ last'.op = "add_record"
            => /\ Len(records') = Len(records) + 1
               /\ records'[Len(records')].overconsumption_mark
                    = (records'[Len(records')].category \in overcats)
               /\ SubSeq(records', 1, Len(records)) = records
        /\ last'.op \in {"add_overconsumption_category",
                         "remove_overconsumption_category"}
            => Marks(records') = Marks(records)
        /\ (\E id \in CallerIds(records), kw \in Kwargs :
               /\ "overconsumption_mark" \notin DOMAIN kw
               /\ update_record(id, kw, TRUE))
            => Marks(records') = Marks(records)
      ]_vars

\* an update_record has moved a record into a flagged category and its mark
\* is still false; the set has changed under a record whose mark is true
C9_Witness ==
    /\ last.op = "update_record"
    /\ \E i \in DOMAIN records :
          records[i].category \in overcats /\ ~records[i].overconsumption_mark
    /\ \E i \in DOMAIN records :
          records[i].category \notin overcats /\ records[i].overconsumption_mark

\* the Account's in-memory state in the shape of a stored snapshot
AccountSnapshot ==
    [records |-> records, loans |-> loans, settings |-> settings,
     overconsumption_categories |-> overcats]

\* the backup file lacks one of the keys records, loans, settings
LacksRequiredKey(b) == b.readable /\ ~(RequiredKeys \subseteq b.keys)

\* C3: restore_from_backup on a backup that lacks any of the keys records,
\* loans or settings raises and leaves the in-memory records, loans, settings
\* and category set, and the persisted snapshot, as they were.
C3_MissingKeyLeavesState ==
    [][ (last'.op = "restore_from_backup" /\ LacksRequiredKey(last'.input))
            => /\ last'.ret = "raise"
               /\ UNCHANGED <<records, loans, settings, overcats, file>>
      ]_vars

\* such a restore has been refused on an Account that holds records and whose
\* store file lags behind the memory
C3_Witness ==
    /\ last.op = "restore_from_backup"
    /\ LacksRequiredKey(last.input)
    /\ last.ret = "raise"
    /\ Len(records) > 0
    /\ file.exists /\ file.parsable /\ file.content # AccountSnapshot

\* C4: whenever restore_from_backup raises, for any reason, none of records,
\* loans, settings or the category set has changed.
C4_RestoreAllOrNothing ==
    [][ (last'.op = "restore_from_backup" /\ last'.ret = "raise")
            => UNCHANGED <<records, loans, settings, overcats>>
      ]_vars

MutatingCalls ==
    {"add_record", "update_record", "delete_record", "add_loan",
     "mark_loan_repaid", "delete_loan", "set_thresholds", "set_initial_balance",
     "add_overconsumption_category", "remove_overconsumption_category",
     "restore_from_backup"}

\* C5: after a mutating call has returned with its save having succeeded, the
\* persisted snapshot equals the in-memory records, loans, settings and
\* category set.
C5_PersistedEqualsMemory ==
    (last.op \in MutatingCalls /\ last.saved = "ok")
        => (file.exists /\ file.content = AccountSnapshot)

\* C6: every snapshot written to the store is the Account's state before or
\* after the whole call that wrote it, never a mixture.
C6_WritesAreWholeStates ==
    [][ \A i \in DOMAIN writes' :
            writes'[i] = AccountSnapshot \/ writes'[i] = AccountSnapshot'
      ]_vars

\* C2: create_backup(p), then any calls, then restore_from_backup(p) leaves
\* the Account with the records, loans, category set and balance it had when
\* the backup was made.
C2_RestoreRoundTrip ==
    (last.op = "restore_from_backup" /\ last.ret = "true")
        => /\ records = snapS.records
           /\ loans = snapS.loans
           /\ overcats = snapS.overcats
           /\ get_balance(settings, records) = snapS.balance

\* C2 as amended: the round trip holds when the settings held an
\* initial_balance key at the time of the backup.
C2_RestoreRoundTripWithBalanceKey ==
    (/\ last.op = "restore_from_backup" /\ last.ret = "true"
     /\ "initial_balance" \in DOMAIN snapS.settings)
        => /\ records = snapS.records
           /\ loans = snapS.loans
           /\ overcats = snapS.overcats
           /\ get_balance(settings, records) = snapS.balance

\* a restore has brought back a record, and with it loans, categories and an
\* initial balance other than the ones the Account held just before it (the
\* restore's first write still shows the old loans and categories)
C2_Witness ==
    /\ last.op = "restore_from_backup" /\ last.ret = "true"
    /\ "initial_balance" \in DOMAIN snapS.settings
    /\ Len(records) > 0
    /\ Len(writes) = 4
    /\ writes[1].loans # loans
    /\ writes[1].overconsumption_categories # overcats

\* the notifications of a sequence of polls, oldest first
RECURSIVE Emitted(_)
Emitted(polls) ==
    IF polls = <<>> THEN <<>> ELSE Head(polls).notes \o Emitted(Tail(polls))

Balance(polls) == [i \in DOMAIN polls |-> polls[i].bal]

\* C7: in a sequence of polls with fixed thresholds urgent <= warn that starts
\* with both flags false, a poll emits 'urgent' exactly when bal <= urgent
\* and it is the first poll or the poll before had bal > urgent; it emits
\* 'warn' exactly when urgent < bal <= warn and it is the first poll or the
\* poll before had bal > warn; every other poll emits nothing.  The balances
\* 5000, 2000, 2000, 500, 500, 5000 under warn 3000 and urgent 1000 emit
\* warn, urgent.
C7_EdgeTriggered ==
    /\ \A i \in DOMAIN trace :
          LET e == trace[i]
              first == i = 1
              p == trace[IF first THEN 1 ELSE i - 1]
          IN  (e.urgent <= e.warn /\ p.warn = e.warn /\ p.urgent = e.urgent)
                => e.notes =
                     IF e.bal <= e.urgent /\ (first \/ p.bal > p.urgent)
                     THEN <<"urgent">>
                     ELSE IF e.urgent < e.bal /\ e.bal <= e.warn
                             /\ (first \/ p.bal > p.warn)
                     THEN <<"warn">>
                     ELSE <<>>
    /\ (/\ Balance(trace) = <<5000, 2000, 2000, 500, 500, 5000>>
        /\ \A i \in DOMAIN trace : trace[i].warn = 3000 /\ trace[i].urgent = 1000)
          => Emitted(trace) = <<"warn", "urgent">>

\* the polls of the example have been made
C7_Witness ==
    /\ Balance(trace) = <<5000, 2000, 2000, 500, 500, 5000>>
    /\ \A i \in DOMAIN trace : trace[i].warn = 3000 /\ trace[i].urgent = 1000
    /\ Emitted(trace) = <<"warn", "urgent">>

\* a loan that is unrepaid and due on or before today
Overdue(l) == ~l.repaid /\ l.due_date \in {"2025-01-09", "2025-01-10"}

\* C10: every iteration of the background loop emits exactly one 'loan'
\* notification for each unrepaid loan due on or before today, in order, and
\* none for the other loans.
C10_EveryCycleNotifiesOverdueLoans ==
    last.op = "_run_loop"
        => SelectSeq(notes, LAMBDA n : n.kind = "loan")
             = [i \in DOMAIN SelectSeq(loans, Overdue) |->
                   Note("loan", SelectSeq(loans, Overdue)[i].id)]

\* C11: update_record, delete_record, mark_loan_repaid and delete_loan called
\* with an id no live entity has return None or false without raising, leave
\* records, loans, settings and the category set unchanged and write nothing
\* to the store.
C11_NotFoundIsQuiet ==
    [][ /\ (\E id \in CallerIds(records) \ Ids(records), kw \in Kwargs,
               ok \in BOOLEAN : update_record(id, kw, ok))
            => /\ last'.ret = "none"
               /\ writes' = <<>>
               /\ UNCHANGED <<records, loans, settings, overcats, file>>
        /\ (\E id \in CallerIds(records) \ Ids(records), ok \in BOOLEAN :
               delete_record(id, ok))
            => /\ last'.ret = "false"
               /\ writes' = <<>>
               /\ UNCHANGED <<records, loans, settings, overcats, file>>
        /\ (\E id \in CallerIds(loans) \ Ids(loans), ok \in BOOLEAN :
               mark_loan_repaid(id, ok) \/ delete_loan(id, ok))
            => /\ last'.ret = "false"
               /\ writes' = <<>>
               /\ UNCHANGED <<records, loans, settings, overcats, file>>
      ]_vars

\* a call with an unknown id has returned on an Account that holds a record
\* and a loan and whose store file lags behind the memory
C11_Witness ==
    /\ last.op \in {"update_record", "delete_record", "mark_loan_repaid",
                    "delete_loan"}
    /\ last.ret \in {"none", "false"}
    /\ records # <<>> /\ loans # <<>>
    /\ file.exists /\ file.parsable /\ file.content # AccountSnapshot
    /\ last.saved = "none"

\* C12: delete_record(id) removes exactly the records whose id is id, all of
\* them if several share it, keeps the others in order, returns true iff a
\* record was removed and saves only then.
C12_DeleteRemovesAllMatches ==
    [][ \A id \in CallerIds(records) :
          delete_record(id, TRUE)
            => LET kept == SelectSeq(records, LAMBDA r : r.id # id)
                   removed == Len(kept) < Len(records)
               IN  /\ records' = kept
                   /\ last'.ret = (IF removed THEN "true" ELSE "false")
                   /\ (writes' # <<>>) <=> removed
      ]_vars

\* a delete_record has removed two records at once
C12_Witness ==
    /\ last.op = "delete_record"
    /\ last.ret = "true"
    /\ last.result = Len(records) + 2

\* the default snapshot
Defaults ==
    [records |-> <<>>, loans |-> <<>>,
     settings |-> [initial_balance |-> 0, threshold_warn |-> 3000,
                   threshold_urgent |-> 1000, reminder_enabled |-> FALSE,
                   reminder_time |-> "20:00"],
     overconsumption_categories |-> {}]

\* C13: after a load the snapshot is the default one if the file is missing
\* or cannot be parsed; otherwise each top-level key present in the file has
\* the file's value, whole, and each absent one its default.
C13_LoadIsShallowMerge ==
    last.op = "init"
        => \A k \in DOMAIN Defaults :
              Snapshot(data, settings)[k]
                = IF file.exists /\ file.parsable /\ k \in DOMAIN file.content
                  THEN file.content[k]
                  ELSE Defaults[k]

\* a load of a file whose settings object lacks keys the defaults have and
\* which has no records key
C13_Witness ==
    /\ last.op = "init"
    /\ file.exists /\ file.parsable
    /\ "settings" \in DOMAIN file.content
    /\ "threshold_warn" \notin DOMAIN settings
    /\ "records" \notin DOMAIN file.content
    /\ records = <<>>

\* C14: when the store write fails during a mutating call, the call returns
\* its normal result without raising and the in-memory mutation stays
\* applied, while the file keeps its old content.
C14_SaveFailureIsSilent ==
    [][ /\ \A a \in Amounts, k \in Kinds, c \in Categories :
              add_record(a, k, c, FALSE)
                => /\ last'.ret = "record"
                   /\ records' = Append(records,
                                        Record(nextId, a, k, c, c \in overcats))
                   /\ file' = file
        /\ \A id \in Ids(records), kw \in Kwargs :
              update_record(id, kw, FALSE)
                => /\ last'.ret = "record"
                   /\ \E i \in DOMAIN records :
                         /\ records[i].id = id
                         /\ \A k \in DOMAIN kw \cap DOMAIN records[i] :
                               records'[i][k] = kw[k]
                   /\ file' = file
        /\ \A id \in Ids(records) :
              delete_record(id, FALSE)
                => /\ last'.ret = "true"
                   /\ id \notin Ids(records')
                   /\ file' = file
        /\ \A b \in Balances :
              set_initial_balance(b, FALSE)
                => /\ last'.ret # "raise"
                   /\ settings'.initial_balance = b
                   /\ file' = file
        /\ \A t \in ThresholdPairs :
              set_thresholds(t[1], t[2], FALSE)
                => /\ last'.ret # "raise"
                   /\ settings'.threshold_warn = t[1]
                   /\ settings'.threshold_urgent = t[2]
                   /\ file' = file
        /\ \A b \in ExternalBackups :
              (RestoreStage(b) = "done"
               /\ restore_from_backup(b, [i \in 1..4 |-> FALSE]))
                => /\ last'.ret = "true"
                   /\ records' = b.records /\ loans' = b.loans
                   /\ file' = file
      ]_vars

\* an add_record whose save failed has returned its record; the record is in
\* memory and not in the store's file
C14_Witness ==
    /\ last.op = "add_record"
    /\ last.saved = "failed"
    /\ last.ret = "record"
    /\ records # <<>>
    /\ \/ ~file.exists
       \/ ~file.parsable
       \/ DictGet(file.content, "records", <<>>) # records

\* start <= ts < end on strings, a bound that is not given not restricting
InRange(ts, start, end) ==
    /\ start = None \/ ~StrLess(ts, start)
    /\ end = None \/ StrLess(ts, end)

RECURSIVE SumField(_, _)
SumField(s, field) ==
    IF s = <<>> THEN 0 ELSE Head(s)[field] + SumField(Tail(s), field)

MonthNumber(ym) == ym[1] * 12 + (ym[2] - 1)

\* the "YYYY-MM" label and the first instant of the month with a given number
LabelOf(n) == D4(n \div 12) \o <<45>> \o D2((n % 12) + 1)
StartOf(n) == IsoFormat(n \div 12, (n % 12) + 1, 1, 0, 0, 0)

\* C17: monthly_series(n) returns exactly n entries labelled with n
\* consecutive calendar months "YYYY-MM", oldest first, the last being the
\* current month, each entry summing the records in [start of that month,
\* start of the next month), also when the window crosses year boundaries.
C17_ConsecutiveMonths ==
    last.op = "monthly_series"
        => LET today == last.result.args[1]
               n == last.result.args[2]
               v == last.result.value
           IN  /\ Len(v) = n
               /\ \A j \in 1..n :
                     LET k == MonthNumber(today) - (n - j)
                         within == SelectSeq(records,
                                      LAMBDA r : InRange(r.timestamp, StartOf(k),
                                                         StartOf(k + 1)))
                     IN  /\ v[j][1] = LabelOf(k)
                         /\ v[j][2] = SumOfKind(within, "income")
                         /\ v[j][3] = SumOfKind(within, "expense")

\* a series of 14 months asked for in January 2025: it starts in December
\* 2023, two year boundaries back, and counts a record there
C17_Witness ==
    /\ last.op = "monthly_series"
    /\ last.result.args = <<(<<2025, 1>>), 14>>
    /\ last.result.value[1][1] = D4(2023) \o <<45>> \o D2(12)
    /\ last.result.value[1][2] + last.result.value[1][3] > 0
    /\ last.result.value[14][1] = D4(2025) \o <<45>> \o D2(1)

\* C18: once stop() has set the event the loop starts no further poll, and
\* it ends after at most the iteration it is in; stop() called again changes
\* nothing and does not fail; stop() returns after a bounded wait.
C18_StopEndsTheLoop ==
    /\ [][ /\ (pc_loop' = "try" /\ pc_loop # "try") => ~stop_event
           /\ stop_event => stop_event'
           /\ pc_loop = "exited" => pc_loop' = "exited"
           /\ (stop_event /\ stop_set)
                => /\ last'.ret # "raise"
                   /\ UNCHANGED <<account, file, has_warned_low, warned_low,
                                  warned_urgent, stop_event, pc_loop>>
         ]_vars
    /\ stop_event ~> (pc_loop = "exited")
    /\ (pc_stop = "join") ~> (pc_stop = "idle")

\* the loop has ended and a further stop() has found the thread not alive
C18_Witness ==
    /\ last.op = "stop"
    /\ last.stage = "not alive"
    /\ stop_event
    /\ pc_loop = "exited"

\* C19: an exception raised by a check or by the notification callback
\* during an iteration never ends the loop, and unless stop() is called the
\* loop comes to a further iteration.
C19_LoopSurvivesExceptions ==
    /\ [](pc_loop # "dead")
    /\ (/\ pc_loop = "wait"
        /\ last.op = "_run_loop"
        /\ (last.ret = "caught" \/ last.stage = "callback raised"))
          ~> (stop_event \/ pc_loop = "try")

\* the loop is about to run its checks again after an iteration in which
\* check_thresholds raised
C19_Witness ==
    /\ last.op = "_run_loop"
    /\ last.ret = "caught"
    /\ pc_loop = "try"
    /\ ~stop_event

\* C20: under every interleaving of the constructor with its thread, the
\* flag warned_low exists when a poll evaluates it, no poll fails for lack of
\* it, and the constructor does not reset a flag a poll has set.
C20_FlagsReadyBeforeFirstPoll ==
    [][ /\ run_loop_iteration
             => /\ has_warned_low
                /\ last'.ret # "caught"
        /\ ctor_finish => ~warned_low
      ]_vars

\* C21: a 'loan' notification is emitted only for a loan that is in the
\* Account and not repaid at that moment: once mark_loan_repaid or delete_loan
\* has returned true for a loan, the thread emits none for it.
C21_NoLoanNotificationOnceSettled ==
    [][ \A i \in DOMAIN notes' :
            notes'[i].kind = "loan"
              => \E j \in DOMAIN loans : /\ loans[j].id = notes'[i].id
                                         /\ ~loans[j].repaid
      ]_vars

\* C22: the balance a poll computes while backups are restored is a balance
\* the Account has shown since the poll began, that of the state before a
\* restore or of the state after it, and so is the balance for which the poll
\* emits a threshold notification.
C22_PollSeesWholeStates ==
    [][ /\ (poll.pc = "records" /\ poll'.pc = "warn") => poll'.bal \in poll'.seen
        /\ (poll.pc = "rules" /\ notes' # <<>>) => poll.bal \in poll.seen
      ]_vars

\* the ids of a sequence of records are pairwise distinct
Distinct(s) == \A i, j \in DOMAIN s : s[i].id = s[j].id => i = j

\* C23: in every reachable Account state the ids of the records are pairwise
\* distinct, whatever add_record, update_record and delete_record calls were
\* made.
C23_RecordIdsDistinct == Distinct(records)

====
